---- MODULE Spec2Model ----
(***************************************************************************)
(* A model of depth-nerf: the SyntheticRealistic dataset                   *)
(* (src/data/dataset.py) and the training / validation loop                *)
(* (src/run-nerf.py).                                                      *)
(*                                                                         *)
(* Arrays are functions over 0..n-1, as in the Python code.  Real numbers  *)
(* are exact rationals <<num, den>>; <<1, 0>> stands for +inf.             *)
(***************************************************************************)
EXTENDS Integers, Sequences, FiniteSets, TLC

VARIABLES
    \* ---- the scene on disk and the constructor's arguments
    scene,      \* the frames' camera positions x, the image size H, W, and
                \* tan_half = tan(0.5 * camera_angle_x)
    n_imgs,     \* argument n_imgs
    white_bkgd, \* argument white_bkgd
    img_mode,   \* self.img_mode
    \* ---- SyntheticRealistic
    status,     \* "unbuilt", "built", or "error" (the constructor raised)
    labels,     \* kmeans.labels_ of the constructor
    idxs,       \* idxs of the constructor
    hwf,        \* self.hwf
    imgs,       \* self.imgs
    poses,      \* self.poses
    rays_o,     \* self.rays_o
    rays_d,     \* self.rays_d
    rgb,        \* self.rgb
    ret,        \* what the last gaussian_downsample call returned
    last_t,     \* the argument of the last gaussian_downsample call (-1: none yet)
    prev_t,     \* the argument of the gaussian_downsample call before that one
    \* ---- train (run-nerf.py)
    args,       \* the parsed command line: n_iters, val_rate, no_val, debug, ao,
                \* reg_ratio, Td, batch_size
    n_samples,  \* len(train_loader.dataset)
    pc,         \* where train is
    exc,        \* the exception that ended train, "" if none
    k,          \* the loop variable of train (-1 before the first iteration)
    iterator,   \* the samples the current iterator over train_loader has yet to yield
    epoch,      \* how many iterators over train_loader were created
    drawn,      \* per sample, how many times it was drawn
    model_mode, \* model.training: "train" or "eval"
    est_mode,   \* estimator.training
    lpips_mode, \* lpips_net.training
    alpha,      \* the local variable alpha; <<>> while unassigned
    coefs,      \* per loss computed, the coefficient its frequency penalty had
    grads,      \* the gradients: "none", "set" or "zero"
    opt_steps,  \* optimizer.step() calls so far
    sched_steps,\* scheduler.step() calls so far
    occ_step,   \* the step given to the last estimator.update_every_n_steps call
    renders,    \* R.render_rays calls so far
    validated,  \* the iterations in which a validation pass ran
    log,        \* the wandb.log calls of train
    \* ---- validation's perceptual distance (run-nerf.py)
    val_size,   \* len(val_loader)
    frame_lpips,\* per held-out frame, the distance lpips_net gives it
    val_pc,     \* "start" or "done"
    chunks,     \* the chunks validation evaluated, as <<first, last + 1>> index pairs
    val_lpips   \* the val_lpips validation returns

dataVars == <<scene, n_imgs, white_bkgd, img_mode, status, labels, idxs, hwf,
              imgs, poses, rays_o, rays_d, rgb, ret, last_t, prev_t>>

cfgVars  == <<args, n_samples>>
iterVars == <<iterator, epoch, drawn>>
modeVars == <<model_mode, est_mode, lpips_mode>>
regVars  == <<alpha, coefs>>
optVars  == <<grads, opt_steps, sched_steps, occ_step, renders>>
outVars  == <<validated, log>>
trainVars == <<cfgVars, pc, exc, k, iterVars, modeVars, regVars, optVars, outVars>>

valVars == <<val_size, frame_lpips, val_pc, chunks, val_lpips>>

vars == <<dataVars, trainVars, valVars>>

----------------------------------------------------------------------------
(* Bounds of the model *)

\* most frames a scene's metadata lists
MaxViews == 2
\* largest blur standard deviation passed to gaussian_downsample
MaxT == 1
\* most iterations of a training run (args.n_iters)
MaxIters == 4
\* largest validation period (args.val_rate)
MaxValRate == 2
\* largest decay horizon (args.Td)
MaxTd == 3
\* most samples of the training set
MaxLen == 2
\* most frames of a held-out set (len(val_loader))
MaxValSize == 26

\* camera positions a frame can have (pose[:3, 3])
Positions == {<<0, 0, 0>>, <<1, 0, 0>>, <<0, 3, 0>>}
\* image sizes <<H, W>> of a scene
Sizes == {<<1, 2>>, <<4, 5>>}
\* tan(0.5 * camera_angle_x) of a scene; <<0, 1>> is a zero field of view
TanHalves == {<<0, 1>>, <<1, 2>>}
\* args.ao: None (<<>>) or a floor in (0, 1)
None == <<>>
AoValues == {None, <<1, 4>>, <<1, 2>>}
\* args.reg_ratio
RegRatios == {<<1, 2>>, <<1, 1>>}
\* args.batch_size
BatchSizes == {1, 2}

----------------------------------------------------------------------------
(* Exact arithmetic *)

Min(a, b) == IF a <= b THEN a ELSE b
Abs(a) == IF a < 0 THEN -a ELSE a

RECURSIVE GCD(_, _)
GCD(a, b) == IF b = 0 THEN a ELSE GCD(b, a % b)

INF == <<1, 0>>
IsFinite(q) == q[2] # 0

\* the rational n / d in lowest terms, d > 0; a division by zero of a
\* positive number gives +inf (numpy float semantics)
Rat(n, d) ==
    IF d = 0 THEN INF
    ELSE LET g == GCD(Abs(n), Abs(d))
             s == IF d < 0 THEN -1 ELSE 1
         IN  <<s * (n \div g), s * (d \div g)>>

RatAdd(p, q) == Rat(p[1] * q[2] + q[1] * p[2], p[2] * q[2])
RatSub(p, q) == Rat(p[1] * q[2] - q[1] * p[2], p[2] * q[2])
RatMul(p, q) == Rat(p[1] * q[1], p[2] * q[2])
RatDiv(p, q) == Rat(p[1] * q[2], p[2] * q[1])
RatLeq(p, q) == p[1] * q[2] <= q[1] * p[2]
RatMin(p, q) == IF RatLeq(p, q) THEN p ELSE q

RECURSIVE SumOver(_, _)
\* the sum of f[e] over the finite set S
SumOver(f, S) ==
    IF S = {} THEN 0
    ELSE LET e == CHOOSE e \in S : TRUE IN f[e] + SumOver(f, S \ {e})

----------------------------------------------------------------------------
(* Scene loading: SyntheticRealistic.__load *)

NumViews(sc) == Cardinality(DOMAIN sc.x)

\* the RGBa pixel (i, j) of frame v as read from disk
RawPixel(v, i, j) == [frame |-> v, i |-> i, j |-> j, bkgd |-> "rgba", blur |-> <<>>]

\* focal = 0.5 * W / np.tan(0.5 * fov_x): numpy divides by zero without raising
Focal(W, tan_half) == Rat(W * tan_half[2], 2 * tan_half[1])

Load(sc) ==
    [imgs  |-> [v \in DOMAIN sc.x |->
                  [p \in (0 .. sc.H - 1) \X (0 .. sc.W - 1) |-> RawPixel(v, p[1], p[2])]],
     poses |-> [v \in DOMAIN sc.x |-> [frame |-> v, t |-> sc.x[v]]],
     hwf   |-> [H |-> sc.H, W |-> sc.W, focal |-> Focal(sc.W, sc.tan_half)]]

\* the background colour: composite on white, or keep the colour channels
Composite(px, white) == [px EXCEPT !.bkgd = IF white THEN "white" ELSE "rgb"]

----------------------------------------------------------------------------
(* View selection: SyntheticRealistic.__init__, lines 68-82 *)

\* squared distance of position p to the centre s / n, times n * n
ScaledDist2(p, s, n) ==
    (n * p[1] - s[1]) * (n * p[1] - s[1])
  + (n * p[2] - s[2]) * (n * p[2] - s[2])
  + (n * p[3] - s[3]) * (n * p[3] - s[3])

Members(l, c) == {v \in DOMAIN l : l[v] = c}

\* the sum of the positions of cluster c: its centre is CentreSum / |Members|
CentreSum(x, l, c) ==
    <<SumOver([v \in DOMAIN x |-> x[v][1]], Members(l, c)),
      SumOver([v \in DOMAIN x |-> x[v][2]], Members(l, c)),
      SumOver([v \in DOMAIN x |-> x[v][3]], Members(l, c))>>

\* squared distance of frame v to the centre of cluster c (c not empty)
CentreDist2(x, l, v, c) ==
    LET n == Cardinality(Members(l, c))
    IN  Rat(ScaledDist2(x[v], CentreSum(x, l, c), n), n * n)

\* KMeans(n_clusters = k, n_init = 10).fit(x).labels_: the labellings the
\* library can return.  Every frame is labelled with a nearest centre, the
\* centres are the means of their members, frames at the same position share
\* a label, and as many clusters are used as there are distinct positions,
\* up to k (with fewer distinct positions than k some labels stay unused).
KMeansLabels(x, nc) ==
    {l \in [DOMAIN x -> 0 .. nc - 1] :
        /\ \A u, v \in DOMAIN x : x[u] = x[v] => l[u] = l[v]
        /\ Cardinality({l[v] : v \in DOMAIN x})
             = Min(nc, Cardinality({x[v] : v \in DOMAIN x}))
        /\ \A v \in DOMAIN x : \A c \in {l[u] : u \in DOMAIN x} :
             RatLeq(CentreDist2(x, l, v, l[v]), CentreDist2(x, l, v, c))}

\* dists = np.linalg.norm(x - kmeans.cluster_centers_[labels], axis=1), squared
Dists(x, l) == [v \in DOMAIN x |-> CentreDist2(x, l, v, l[v])]

\* np.where(labels == i, dists, np.inf)
ClusterDists(l, dists, i) == [v \in DOMAIN l |-> IF l[v] = i THEN dists[v] ELSE INF]

\* np.argmin: the first index of a least entry
ArgMin(f) ==
    CHOOSE v \in DOMAIN f :
        /\ \A u \in DOMAIN f : RatLeq(f[v], f[u])
        /\ \A u \in DOMAIN f : u < v => ~RatLeq(f[u], f[v])

SelectViews(x, l, nc) ==
    [i \in 0 .. nc - 1 |-> ArgMin(ClusterDists(l, Dists(x, l), i))]

----------------------------------------------------------------------------
(* Ray table: SyntheticRealistic.__build_data, __len__ *)

ImgH(img) == Cardinality({p[1] : p \in DOMAIN img})
ImgW(img) == Cardinality({p[2] : p \in DOMAIN img})

\* U.get_rays(H, W, f, pose): one origin and one direction per pixel
GetRays(H, W, f, pose) ==
    [p \in (0 .. H - 1) \X (0 .. W - 1) |->
        [o |-> pose.t,
         d |-> [frame |-> pose.frame, i |-> p[1], j |-> p[2], focal |-> f]]]

FlattenImgsMutColumnMajor(ims) ==
    LET N == Cardinality(DOMAIN ims)
        h == IF N = 0 THEN 0 ELSE ImgH(ims[0])
        w == IF N = 0 THEN 0 ELSE ImgW(ims[0])
    IN  [r \in 0 .. N * h * w - 1 |->
            ims[r \div (h * w)][<<(r % (h * w)) % h, (r % (h * w)) \div h>>]]

\* imgs.reshape(-1, 3): one row per pixel, in frame, row, column order
FlattenImgs(ims) ==
    LET N == Cardinality(DOMAIN ims)
        h == IF N = 0 THEN 0 ELSE ImgH(ims[0])
        w == IF N = 0 THEN 0 ELSE ImgW(ims[0])
    IN  [r \in 0 .. N * h * w - 1 |->
            ims[r \div (h * w)][<<(r % (h * w)) \div w, r % w>>]]

BuildDataMutDropRow(ims, ps, f) ==
    LET N == Cardinality(DOMAIN ps)
        per_pose == [n \in DOMAIN ps |-> GetRays(f.H, f.W, f.focal, ps[n])]
        rays == [r \in 0 .. N * f.H * f.W - 1 |->
                   per_pose[r \div (f.H * f.W)][<<(r % (f.H * f.W)) \div f.W, r % f.W>>]]
        flat == FlattenImgs(ims)
    IN  [rays_o |-> [r \in DOMAIN rays |-> rays[r].o],
         rays_d |-> [r \in DOMAIN rays |-> rays[r].d],
         rgb    |-> [r \in 0 .. Cardinality(DOMAIN flat) - 2 |-> flat[r]]]

BuildData(ims, ps, f) ==
    LET N == Cardinality(DOMAIN ps)
        per_pose == [n \in DOMAIN ps |-> GetRays(f.H, f.W, f.focal, ps[n])]
        rays == [r \in 0 .. N * f.H * f.W - 1 |->
                   per_pose[r \div (f.H * f.W)][<<(r % (f.H * f.W)) \div f.W, r % f.W>>]]
    IN  [rays_o |-> [r \in DOMAIN rays |-> rays[r].o],
         rays_d |-> [r \in DOMAIN rays |-> rays[r].d],
         rgb    |-> FlattenImgs(ims)]

\* __len__
DatasetLen == IF img_mode THEN Cardinality(DOMAIN imgs) ELSE Cardinality(DOMAIN rgb)

\* __getitem__
GetItem(idx) == IF img_mode THEN <<imgs[idx], poses[idx]>>
                ELSE <<rays_o[idx], rays_d[idx], rgb[idx]>>

----------------------------------------------------------------------------
(* The constructor: SyntheticRealistic.__init__ *)

NoRet == [kind |-> "none", imgs |-> <<>>, hwf |-> <<>>]

Construct ==
    /\ status = "unbuilt"
    /\ LET loaded == Load(scene)
           nc == n_imgs
       IN  IF nc > NumViews(scene)
           THEN \* KMeans.fit raises ValueError: n_samples < n_clusters
                /\ status' = "error"
                /\ UNCHANGED <<labels, idxs, hwf, imgs, poses, rays_o, rays_d, rgb>>
           ELSE \E l \in KMeansLabels(scene.x, nc) :
                LET sel == SelectViews(scene.x, l, nc)
                    ims == [n \in 0 .. nc - 1 |->
                              [p \in DOMAIN loaded.imgs[sel[n]] |->
                                  Composite(loaded.imgs[sel[n]][p], white_bkgd)]]
                    ps  == [n \in 0 .. nc - 1 |-> loaded.poses[sel[n]]]
                    tab == BuildData(ims, ps, loaded.hwf)
                IN  /\ status' = "built"
                    /\ labels' = l
                    /\ idxs' = sel
                    /\ hwf' = loaded.hwf
                    /\ imgs' = ims
                    /\ poses' = ps
                    /\ IF img_mode
                       THEN UNCHANGED <<rays_o, rays_d, rgb>>
                       ELSE /\ rays_o' = tab.rays_o
                            /\ rays_d' = tab.rays_d
                            /\ rgb' = tab.rgb
    /\ UNCHANGED <<trainVars, valVars, scene, n_imgs, white_bkgd, img_mode, ret, last_t,
                   prev_t>>

----------------------------------------------------------------------------
(* gaussian_downsample, __downsample *)

\* GaussianBlur(6 * t + 1, sigma = t) pads by 3 * t with reflection, which
\* torch refuses unless the padding is smaller than the image
BlurFits(ims, t) == \A n \in DOMAIN ims : 3 * t < ImgH(ims[n]) /\ 3 * t < ImgW(ims[n])

Blur(ims, t) ==
    [n \in DOMAIN ims |-> [p \in DOMAIN ims[n] |->
        [ims[n][p] EXCEPT !.blur = Append(@, t)]]]

\* Resize((h, w)): an image already of that size is returned as it is
Resize(ims, h, w) ==
    [n \in DOMAIN ims |->
        IF ImgH(ims[n]) = h /\ ImgW(ims[n]) = w THEN ims[n]
        ELSE [p \in (0 .. h - 1) \X (0 .. w - 1) |->
                [frame |-> ims[n][<<0, 0>>].frame, i |-> p[1], j |-> p[2],
                 bkgd |-> "resized", blur |-> ims[n][<<0, 0>>].blur]]]

Downsample(ims, f, factor) ==
    LET new_H == f.H \div factor
        new_W == f.W \div factor
        new_focal == RatDiv(f.focal, <<factor, 1>>)
    IN  [imgs |-> Resize(ims, new_H, new_W),
         hwf  |-> [H |-> new_H, W |-> new_W, focal |-> new_focal]]

GaussianDownsampleMutAlways(t) ==
    /\ status = "built"
    /\ last_t' = t
    /\ prev_t' = last_t
    /\ LET down == Downsample(Blur(imgs, t), hwf, 1)
           tab  == BuildData(down.imgs, poses, down.hwf)
       IN  /\ rays_o' = tab.rays_o
           /\ rays_d' = tab.rays_d
           /\ rgb' = tab.rgb
           /\ ret' = [kind |-> "value", imgs |-> down.imgs, hwf |-> down.hwf]
    /\ UNCHANGED <<trainVars, valVars, scene, n_imgs, white_bkgd, img_mode, status,
                   labels, idxs,
                   hwf, imgs, poses>>

GaussianDownsampleMutCumulative(t) ==
    /\ status = "built"
    /\ last_t' = t
    /\ prev_t' = last_t
    /\ IF t > 0
       THEN IF BlurFits(imgs, t)
            THEN LET down == Downsample(Blur(imgs, t), hwf, 1)
                     tab  == BuildData(down.imgs, poses, down.hwf)
                 IN  /\ rays_o' = tab.rays_o
                     /\ rays_d' = tab.rays_d
                     /\ rgb' = tab.rgb
                     /\ imgs' = down.imgs
                     /\ ret' = [kind |-> "value", imgs |-> down.imgs, hwf |-> down.hwf]
            ELSE /\ ret' = [kind |-> "raised", imgs |-> <<>>, hwf |-> <<>>]
                 /\ UNCHANGED <<rays_o, rays_d, rgb, imgs>>
       ELSE /\ ret' = [kind |-> "value", imgs |-> imgs, hwf |-> hwf]
            /\ UNCHANGED <<rays_o, rays_d, rgb, imgs>>
    /\ UNCHANGED <<trainVars, valVars, scene, n_imgs, white_bkgd, img_mode, status,
                   labels, idxs,
                   hwf, poses>>

GaussianDownsample(t) ==
    /\ status = "built"
    /\ last_t' = t
    /\ prev_t' = last_t
    /\ IF t > 0
       THEN IF BlurFits(imgs, t)
            THEN LET down == Downsample(Blur(imgs, t), hwf, 1)
                     tab  == BuildData(down.imgs, poses, down.hwf)
                 IN  /\ rays_o' = tab.rays_o
                     /\ rays_d' = tab.rays_d
                     /\ rgb' = tab.rgb
                     /\ ret' = [kind |-> "value", imgs |-> down.imgs, hwf |-> down.hwf]
            ELSE \* the blur raises; nothing is assigned
                 /\ ret' = [kind |-> "raised", imgs |-> <<>>, hwf |-> <<>>]
                 /\ UNCHANGED <<rays_o, rays_d, rgb>>
       ELSE /\ ret' = [kind |-> "value", imgs |-> imgs, hwf |-> hwf]
            /\ UNCHANGED <<rays_o, rays_d, rgb>>
    /\ UNCHANGED <<trainVars, valVars, scene, n_imgs, white_bkgd, img_mode, status,
                   labels, idxs,
                   hwf, imgs, poses>>

----------------------------------------------------------------------------
(* The frequency regularizer's coefficient: train, lines 271-286 *)

One == <<1, 1>>

WindowLengthMutNIters(a) == (a.reg_ratio[1] * a.n_iters) \div a.reg_ratio[2]

\* Ts = int(args.reg_ratio * args.Td)
WindowLength(a) == (a.reg_ratio[1] * a.Td) \div a.reg_ratio[2]

AlphaMutNoComplement(ao, kk, Ts) ==
    LET a == RatAdd(ao, RatMul(RatSub(One, ao), Rat(kk, Ts)))
    IN  RatMul(RatDiv(ao, RatSub(One, ao)), RatMin(One, a))

\* a = ao + (1 - ao) * (k / Ts); alpha = (ao / (1 - ao)) * (1 - min(1, a))
Alpha(ao, kk, Ts) ==
    LET a == RatAdd(ao, RatMul(RatSub(One, ao), Rat(kk, Ts)))
    IN  RatMul(RatDiv(ao, RatSub(One, ao)), RatSub(One, RatMin(One, a)))

\* whether the frequency penalty is added to the loss in iteration kk
PenaltyApplied(a, kk) == a.ao # None /\ kk < WindowLength(a)

----------------------------------------------------------------------------
(* train *)

\* the orders a shuffling DataLoader can yield n samples in
Shuffles(n) ==
    {p \in [1 .. n -> 0 .. n - 1] : \A i, j \in 1 .. n : i # j => p[i] # p[j]}

\* the first n elements of a sequence, and the rest
Take(sq, n) == SubSeq(sq, 1, Min(n, Len(sq)))
Drop(sq, n) == SubSeq(sq, Min(n, Len(sq)) + 1, Len(sq))

\* the draw counts after the samples of batch b were drawn
CountBatch(d, b) ==
    [s \in DOMAIN d |-> d[s] + Cardinality({i \in DOMAIN b : b[i] = s})]

\* lines 209-235: optimizer, scheduler and the first iterator
TrainStart ==
    /\ pc = "start"
    /\ pc' = "loop"
    /\ iterator' \in Shuffles(n_samples)
    /\ epoch' = 1
    /\ UNCHANGED <<dataVars, valVars, cfgVars,
                   exc, k, drawn, modeVars, regVars, optVars, outVars>>

\* line 237: for k in range(args.n_iters)
LoopNext ==
    /\ pc = "loop"
    /\ IF k + 1 < args.n_iters
       THEN k' = k + 1 /\ pc' = "set_train"
       ELSE k' = k /\ pc' = "done"
    /\ UNCHANGED <<dataVars, valVars, cfgVars,
                   exc, iterVars, modeVars, regVars, optVars, outVars>>

SetTrainModeMutSkip ==
    /\ pc = "set_train"
    /\ pc' = "next_batch"
    /\ UNCHANGED <<model_mode, est_mode>>
    /\ UNCHANGED <<dataVars, valVars, cfgVars, exc, k, iterVars, lpips_mode, regVars,
                   optVars, outVars>>

\* lines 238-239: model.train(); estimator.train()
SetTrainMode ==
    /\ pc = "set_train"
    /\ pc' = "next_batch"
    /\ model_mode' = "train"
    /\ est_mode' = "train"
    /\ UNCHANGED <<dataVars, valVars, cfgVars, exc, k, iterVars, lpips_mode, regVars,
                   optVars, outVars>>

NextBatchMutAlwaysRestart ==
    /\ pc = "next_batch"
    /\ \E fresh \in Shuffles(n_samples) :
          /\ iterator' = Drop(fresh, args.batch_size)
          /\ epoch' = epoch + 1
          /\ drawn' = CountBatch(drawn, Take(fresh, args.batch_size))
          /\ pc' = "render"
          /\ exc' = exc
    /\ UNCHANGED <<dataVars, valVars, cfgVars, k, modeVars, regVars, optVars, outVars>>

\* lines 241-245: next(iterator), with a fresh iterator when it is exhausted
NextBatch ==
    /\ pc = "next_batch"
    /\ IF iterator # <<>>
       THEN /\ iterator' = Drop(iterator, args.batch_size)
            /\ drawn' = CountBatch(drawn, Take(iterator, args.batch_size))
            /\ pc' = "render"
            /\ UNCHANGED <<epoch, exc>>
       ELSE \E fresh \in Shuffles(n_samples) :
            /\ epoch' = epoch + 1
            /\ IF fresh # <<>>
               THEN /\ iterator' = Drop(fresh, args.batch_size)
                    /\ drawn' = CountBatch(drawn, Take(fresh, args.batch_size))
                    /\ pc' = "render"
                    /\ exc' = exc
               ELSE \* the second next raises inside the handler
                    /\ iterator' = fresh
                    /\ drawn' = drawn
                    /\ pc' = "raised"
                    /\ exc' = "StopIteration"
    /\ UNCHANGED <<dataVars, valVars, cfgVars, k, modeVars, regVars, optVars, outVars>>

\* lines 247-257: R.render_rays(..., train=True)
RenderRays ==
    /\ pc = "render"
    /\ pc' = "loss"
    /\ renders' = renders + 1
    /\ UNCHANGED <<dataVars, valVars, cfgVars, exc, k, iterVars, modeVars, regVars,
                   grads, opt_steps, sched_steps, occ_step, outVars>>

\* lines 259-286: the photometric loss and the regularizers
ComputeLoss ==
    /\ pc = "loss"
    /\ pc' = "backward"
    /\ IF PenaltyApplied(args, k)
       THEN /\ alpha' = Alpha(args.ao, k, WindowLength(args))
            /\ coefs' = Append(coefs, Alpha(args.ao, k, WindowLength(args)))
       ELSE /\ alpha' = alpha
            /\ coefs' = Append(coefs, <<0, 1>>)
    /\ UNCHANGED <<dataVars, valVars, cfgVars, exc, k, iterVars, modeVars, optVars, outVars>>

BackwardMutSkipStep ==
    /\ pc = "backward"
    /\ pc' = "sched_step"
    /\ grads' = "set"
    /\ UNCHANGED <<dataVars, valVars, cfgVars, exc, k, iterVars, modeVars, regVars,
                   opt_steps, sched_steps, occ_step, renders, outVars>>

\* line 289: loss.backward()
Backward ==
    /\ pc = "backward"
    /\ pc' = "opt_step"
    /\ grads' = "set"
    /\ UNCHANGED <<dataVars, valVars, cfgVars, exc, k, iterVars, modeVars, regVars,
                   opt_steps, sched_steps, occ_step, renders, outVars>>

\* line 290: optimizer.step()
OptimizerStep ==
    /\ pc = "opt_step"
    /\ pc' = "sched_step"
    /\ opt_steps' = opt_steps + 1
    /\ UNCHANGED <<dataVars, valVars, cfgVars, exc, k, iterVars, modeVars, regVars,
                   grads, sched_steps, occ_step, renders, outVars>>

\* line 291: scheduler.step()
SchedulerStep ==
    /\ pc = "sched_step"
    /\ pc' = "zero_grad"
    /\ sched_steps' = sched_steps + 1
    /\ UNCHANGED <<dataVars, valVars, cfgVars, exc, k, iterVars, modeVars, regVars,
                   grads, opt_steps, occ_step, renders, outVars>>

\* line 292: optimizer.zero_grad()
ZeroGrad ==
    /\ pc = "zero_grad"
    /\ pc' = "occ_update"
    /\ grads' = "zero"
    /\ UNCHANGED <<dataVars, valVars, cfgVars, exc, k, iterVars, modeVars, regVars,
                   opt_steps, sched_steps, occ_step, renders, outVars>>

\* lines 294-304: estimator.update_every_n_steps(step=k, ...)
UpdateOccGrid ==
    /\ pc = "occ_update"
    /\ pc' = "log"
    /\ occ_step' = k
    /\ UNCHANGED <<dataVars, valVars, cfgVars, exc, k, iterVars, modeVars, regVars,
                   grads, opt_steps, sched_steps, renders, outVars>>

\* lines 306-312: the plain emission; reading an unassigned alpha raises
LogMetrics ==
    /\ pc = "log"
    /\ IF ~args.debug /\ k % args.val_rate # 0
       THEN IF alpha = <<>>
            THEN pc' = "raised" /\ exc' = "NameError" /\ log' = log
            ELSE /\ pc' = "compute_val"
                 /\ exc' = exc
                 /\ log' = Append(log, [k |-> k, val |-> FALSE, alpha |-> alpha])
       ELSE pc' = "compute_val" /\ exc' = exc /\ log' = log
    /\ UNCHANGED <<dataVars, valVars, cfgVars,
                   k, iterVars, modeVars, regVars, optVars, validated>>

ComputeValMutAtZero ==
    /\ pc = "compute_val"
    /\ IF k % args.val_rate = 0 /\ ~args.no_val
       THEN pc' = "set_eval"
       ELSE pc' = "loop"
    /\ UNCHANGED <<dataVars, valVars, cfgVars, exc, k, iterVars, modeVars, regVars,
                   optVars, outVars>>

\* lines 314-316: compute_val = k % args.val_rate == 0 and k > 0 and not args.no_val
ComputeVal ==
    /\ pc = "compute_val"
    /\ IF k % args.val_rate = 0 /\ k > 0 /\ ~args.no_val
       THEN pc' = "set_eval"
       ELSE pc' = "loop"
    /\ UNCHANGED <<dataVars, valVars, cfgVars, exc, k, iterVars, modeVars, regVars,
                   optVars, outVars>>

\* lines 317-319: model.eval(); estimator.eval(); lpips_net.eval()
SetEvalMode ==
    /\ pc = "set_eval"
    /\ pc' = "validation"
    /\ model_mode' = "eval"
    /\ est_mode' = "eval"
    /\ lpips_mode' = "eval"
    /\ UNCHANGED <<dataVars, valVars, cfgVars, exc, k, iterVars, regVars, optVars, outVars>>

\* R.render_frame(..., train=False) under torch.no_grad(): the renderer in
\* evaluation mode reads the model and the occupancy grid and returns the
\* frame; it writes no gradient, parameter, optimizer, schedule or grid state
RenderFrame == UNCHANGED optVars

ValidationMutSteps ==
    /\ pc = "validation"
    /\ pc' = "test_render"
    /\ validated' = validated \cup {k}
    /\ opt_steps' = opt_steps + 1
    /\ UNCHANGED <<grads, sched_steps, occ_step, renders>>
    /\ UNCHANGED <<dataVars, valVars, cfgVars,
                   exc, k, iterVars, modeVars, regVars, log>>

\* lines 320-330 and 103-185: the validation pass, one render_frame per
\* held-out frame and the three metrics computed from the frames
Validation ==
    /\ pc = "validation"
    /\ pc' = "test_render"
    /\ validated' = validated \cup {k}
    /\ RenderFrame
    /\ UNCHANGED <<dataVars, valVars, cfgVars,
                   exc, k, iterVars, modeVars, regVars, log>>

\* lines 331-342: R.render_frame(..., testpose, ..., train=False)
RenderTestFrame ==
    /\ pc = "test_render"
    /\ pc' = "val_log"
    /\ RenderFrame
    /\ UNCHANGED <<dataVars, valVars, cfgVars, exc, k, iterVars, modeVars, regVars,
                   outVars>>

\* lines 344-361: the validation emission
LogValidation ==
    /\ pc = "val_log"
    /\ IF ~args.debug
       THEN IF alpha = <<>>
            THEN pc' = "raised" /\ exc' = "NameError" /\ log' = log
            ELSE /\ pc' = "loop"
                 /\ exc' = exc
                 /\ log' = Append(log, [k |-> k, val |-> TRUE, alpha |-> alpha])
       ELSE pc' = "loop" /\ exc' = exc /\ log' = log
    /\ UNCHANGED <<dataVars, valVars, cfgVars,
                   k, iterVars, modeVars, regVars, optVars, validated>>

----------------------------------------------------------------------------
(* main, after train returned: the final validation, lines 467-502 *)

\* lines 467-484: the final validation set; model.eval(); estimator.eval();
\* lpips_net.eval()
FinalSetEvalMode ==
    /\ pc = "done"
    /\ pc' = "final_validation"
    /\ model_mode' = "eval"
    /\ est_mode' = "eval"
    /\ lpips_mode' = "eval"
    /\ UNCHANGED <<dataVars, valVars, cfgVars, exc, k, iterVars, regVars, optVars,
                   outVars>>

\* lines 485-502: the final validation pass; its emission holds the final
\* metrics only and is no emission of train
FinalValidation ==
    /\ pc = "final_validation"
    /\ pc' = "end"
    /\ RenderFrame
    /\ UNCHANGED <<dataVars, valVars, cfgVars, exc, k, iterVars, modeVars, regVars,
                   outVars>>

----------------------------------------------------------------------------
(* validation's perceptual distance: validation, lines 153-168 *)

\* lpips_net(rgbs[a:b], rgbs_gt[a:b]).mean(): the mean distance of frames a .. b-1
MeanLpips(d, a, b) == Rat(SumOver(d, a .. b - 1), b - a)

\* the slices [i : i + chunk_size] for i in range(0, val_size, chunk_size)
ChunkSlices(n, chunk_size) ==
    LET starts == {i \in 0 .. n - 1 : i % chunk_size = 0}
    IN  [c \in 1 .. Cardinality(starts) |->
            <<(c - 1) * chunk_size, Min(n, c * chunk_size)>>]

RECURSIVE SumChunkMeans(_, _, _)
\* val_lpips after the means of the first c chunks were added up
SumChunkMeans(d, cs, c) ==
    IF c = 0 THEN <<0, 1>>
    ELSE RatAdd(SumChunkMeans(d, cs, c - 1), MeanLpips(d, cs[c][1], cs[c][2]))

LpipsThreshold == 25
NChunks == 5

\* the chunks validation evaluates
ValChunks(n) ==
    IF n < LpipsThreshold THEN <<<<0, n>>>>
    ELSE ChunkSlices(n, n \div NChunks)

\* val_lpips as validation computes it
ValLpips(d, n) ==
    IF n < LpipsThreshold THEN MeanLpips(d, 0, n)
    ELSE LET cs == ChunkSlices(n, n \div NChunks)
         IN  RatDiv(SumChunkMeans(d, cs, Len(cs)), <<NChunks, 1>>)

\* lines 153-168 of validation
ValidationLpips ==
    /\ val_pc = "start"
    /\ val_pc' = "done"
    /\ chunks' = ValChunks(val_size)
    /\ val_lpips' = ValLpips(frame_lpips, val_size)
    /\ UNCHANGED <<dataVars, trainVars, val_size, frame_lpips>>

----------------------------------------------------------------------------
(* Specifications *)

Scenes ==
    {[x |-> x, H |-> sz[1], W |-> sz[2], tan_half |-> th] :
        x \in UNION {[0 .. n - 1 -> Positions] : n \in 1 .. MaxViews},
        sz \in Sizes, th \in TanHalves}

Args ==
    [n_iters : 0 .. MaxIters, val_rate : 1 .. MaxValRate, no_val : BOOLEAN,
     debug : BOOLEAN, ao : AoValues, reg_ratio : RegRatios, Td : 0 .. MaxTd,
     batch_size : BatchSizes]

\* the per-frame distances of a held-out set of n frames
FrameLpips(n) ==
    {[i \in 0 .. n - 1 |-> 1]}
    \cup {[i \in 0 .. n - 1 |-> IF i = h THEN 1 ELSE 0] : h \in 0 .. n - 1}
    \cup {[i \in 0 .. n - 1 |-> IF i = h THEN 3 ELSE 1] : h \in 0 .. n - 1}

\* The initial states of one part of the program, the other parts idle:
\*   "data"  a scene on disk and the arguments of a SyntheticRealistic about
\*           to be built;
\*   "train" train about to be called on freshly initialised models;
\*   "val"   validation about to compare the frames it has rendered.
InitOf(part) ==
    /\ scene \in (IF part = "data" THEN Scenes ELSE {<<>>})
    /\ n_imgs \in (IF part = "data" THEN 1 .. MaxViews + 1 ELSE {0})
    /\ white_bkgd \in (IF part = "data" THEN BOOLEAN ELSE {FALSE})
    /\ img_mode \in (IF part = "data" THEN BOOLEAN ELSE {FALSE})
    /\ status = (IF part = "data" THEN "unbuilt" ELSE "idle")
    /\ labels = <<>>
    /\ idxs = <<>>
    /\ hwf = <<>>
    /\ imgs = <<>>
    /\ poses = <<>>
    /\ rays_o = <<>>
    /\ rays_d = <<>>
    /\ rgb = <<>>
    /\ ret = NoRet
    /\ last_t = -1
    /\ prev_t = -1
    /\ args \in (IF part = "train" THEN Args ELSE {<<>>})
    /\ n_samples \in (IF part = "train" THEN 1 .. MaxLen ELSE {0})
    /\ pc = (IF part = "train" THEN "start" ELSE "idle")
    /\ exc = ""
    /\ k = -1
    /\ iterator = <<>>
    /\ epoch = 0
    /\ drawn = [s \in 0 .. n_samples - 1 |-> 0]
    /\ model_mode = "train"
    /\ est_mode = "train"
    /\ lpips_mode = "eval"
    /\ alpha = <<>>
    /\ coefs = <<>>
    /\ grads = "none"
    /\ opt_steps = 0
    /\ sched_steps = 0
    /\ occ_step = -1
    /\ renders = 0
    /\ validated = {}
    /\ log = <<>>
    /\ val_size \in (IF part = "val" THEN 1 .. MaxValSize ELSE {0})
    /\ frame_lpips \in (IF part = "val" THEN FrameLpips(val_size) ELSE {<<>>})
    /\ val_pc = (IF part = "val" THEN "start" ELSE "idle")
    /\ chunks = <<>>
    /\ val_lpips = <<0, 1>>

NextData ==
    \/ Construct
    \/ \E t \in 0 .. MaxT : GaussianDownsample(t)

NextTrain ==
    \/ TrainStart
    \/ LoopNext
    \/ SetTrainMode
    \/ NextBatch
    \/ RenderRays
    \/ ComputeLoss
    \/ Backward
    \/ OptimizerStep
    \/ SchedulerStep
    \/ ZeroGrad
    \/ UpdateOccGrid
    \/ LogMetrics
    \/ ComputeVal
    \/ SetEvalMode
    \/ Validation
    \/ RenderTestFrame
    \/ LogValidation
    \/ FinalSetEvalMode
    \/ FinalValidation

NextVal == ValidationLpips

\* the dataset: construction, then any sequence of gaussian_downsample calls
SpecData == InitOf("data") /\ [][NextData]_vars

\* one call of train
SpecTrain == InitOf("train") /\ [][NextTrain]_vars

\* the perceptual distance of one validation pass
SpecVal == InitOf("val") /\ [][NextVal]_vars

Init == \E part \in {"data", "train", "val"} : InitOf(part)

Next == NextData \/ NextTrain \/ NextVal

Spec == Init /\ [][Next]_vars

----------------------------------------------------------------------------
(* Properties of the dataset *)

DistinctPositions == Cardinality({scene.x[v] : v \in DOMAIN scene.x})

\* C1: for every scene and every n_imgs = k with 1 <= k <= number of views,
\* idxs has exactly k entries, pairwise distinct, and idxs[i] is a view
\* labelled i that is no farther from centroid i than any other view
\* labelled i.
C1_SelectionPerCluster ==
    status = "built" =>
        /\ DOMAIN idxs = 0 .. n_imgs - 1
        /\ \A i, j \in DOMAIN idxs : i # j => idxs[i] # idxs[j]
        /\ \A i \in DOMAIN idxs :
              /\ labels[idxs[i]] = i
              /\ \A v \in Members(labels, i) :
                    RatLeq(Dists(scene.x, labels)[idxs[i]], Dists(scene.x, labels)[v])

\* C2: the dataset's length is n_imgs * height * width in ray mode and
\* n_imgs in image mode, after construction and after any sequence of
\* gaussian_downsample calls.
C2_DatasetSize ==
    status = "built" =>
        DatasetLen = IF img_mode THEN n_imgs ELSE n_imgs * hwf.H * hwf.W

\* a ray-mode dataset of several views whose table a blur has rebuilt
C2_Witness ==
    /\ status = "built"
    /\ ~img_mode
    /\ n_imgs > 1
    /\ last_t > 0
    /\ ret.kind = "value"
    /\ DatasetLen = n_imgs * scene.H * scene.W

\* C8: constructing the dataset with n_imgs greater than the number of
\* distinct views fails with an error; no dataset is returned.
C8_TooManyViewsFails ==
    (status # "unbuilt" /\ n_imgs > DistinctPositions) => status = "error"

\* C9: a scene whose metadata has a zero field of view fails to load; no
\* dataset with a non-finite focal length is returned.
C9_ZeroFovFails ==
    /\ (status # "unbuilt" /\ scene.tan_half[1] = 0) => status = "error"
    /\ status = "built" => IsFinite(hwf.focal)

----------------------------------------------------------------------------
(* Properties of train *)

TotalDrawn == SumOver(drawn, DOMAIN drawn)

\* C3: with batch size 1 and a non-empty dataset of length L, no
\* StopIteration escapes the batch drawing, after 2 * L draws every sample
\* was drawn at least twice, and an iterator is created only once the pass
\* before it is consumed: a sample was drawn once per pass, the current pass
\* included unless the iterator has yet to yield it.
C3_EpochWraparound ==
    (pc # "idle" /\ args.batch_size = 1) =>
        /\ exc # "StopIteration"
        /\ \A s \in DOMAIN drawn :
              drawn[s] = IF \E i \in DOMAIN iterator : iterator[i] = s
                         THEN epoch - 1 ELSE epoch
        /\ TotalDrawn = 2 * n_samples => \A s \in DOMAIN drawn : drawn[s] >= 2

\* 2 * L batches of size 1 were drawn from a dataset of L = 2 samples
C3_Witness ==
    /\ pc = "render"
    /\ args.batch_size = 1
    /\ n_samples = 2
    /\ TotalDrawn = 2 * n_samples
    /\ epoch = 2
    /\ iterator = <<>>

\* whether the claim has iteration j run a validation pass
ValidationDue(j) == j > 0 /\ j % args.val_rate = 0 /\ ~args.no_val

\* whether iteration j is past the point where it validates or not
ValidationDecided(j) ==
    \/ j < k
    \/ j = k /\ (\/ pc \in {"test_render", "val_log", "loop", "done",
                             "final_validation", "end"}
                  \/ exc = "NameError")

\* C4: a validation pass runs in iteration k if and only if k > 0, k is a
\* multiple of val_rate and no_val is false; none runs at k = 0, and a
\* validation is over before the next iteration begins.
C4_ValidationTrigger ==
    pc # "idle" =>
        /\ \A j \in validated : j \in 0 .. k /\ ValidationDue(j)
        /\ \A j \in 0 .. k : (ValidationDecided(j) /\ ValidationDue(j)) => j \in validated
        /\ pc \in {"set_eval", "validation", "test_render", "val_log"} => ValidationDue(k)

\* a run of four iterations with val_rate = 2 validated in iteration 2 only
C4_Witness ==
    /\ pc = "done"
    /\ args.val_rate = 2
    /\ k = 3
    /\ validated = {2}

\* C5: training renders, backward passes and optimizer steps happen only
\* with model and estimator in training mode, validation renders only with
\* both in evaluation mode, and both are back in training mode before the
\* optimizer step that follows a validation pass.
C5_ModesSeparateValidation ==
    /\ pc \in {"render", "loss", "backward", "opt_step", "sched_step",
               "zero_grad", "occ_update"}
          => model_mode = "train" /\ est_mode = "train"
    /\ pc \in {"validation", "test_render", "final_validation"}
          => model_mode = "eval" /\ est_mode = "eval"

\* an optimizer step is about to be taken after a validation pass
C5_Witness ==
    /\ pc = "opt_step"
    /\ validated # {}
    /\ model_mode = "train"
    /\ est_mode = "train"

\* C6: with window length Ts and floor a0 in (0, 1), the coefficient of the
\* frequency penalty is largest at k = 0 (where it is a0), does not
\* increase for k = 0 .. Ts, and is 0 at k = Ts.
C6_AlphaBoundary ==
    (pc # "idle" /\ args.ao # None) =>
        \A j \in 0 .. Len(coefs) - 1 :
            /\ j <= WindowLength(args) => RatLeq(coefs[j + 1], coefs[1])
            /\ (1 <= j /\ j <= WindowLength(args)) => RatLeq(coefs[j + 1], coefs[j])
            /\ j = WindowLength(args) => coefs[j + 1] = <<0, 1>>
            /\ (j = 0 /\ WindowLength(args) > 0) => coefs[1] = args.ao

\* a run went through a window of at least two iterations and reached its end
C6_Witness ==
    /\ pc # "idle"
    /\ args.ao # None
    /\ WindowLength(args) >= 2
    /\ Len(coefs) > WindowLength(args)
    /\ coefs[WindowLength(args) + 1] = <<0, 1>>
    /\ ~RatLeq(coefs[1], coefs[2])

----------------------------------------------------------------------------
(* Properties of validation *)

\* C7: validation's perceptual distance is the mean over all frames; below
\* 25 frames it is computed in one pass, and from 25 frames on the set is
\* split into exactly 5 chunks of equal size that cover every frame once.
C7_ChunkingEquivalence ==
    val_pc = "done" =>
        /\ val_lpips = MeanLpips(frame_lpips, 0, val_size)
        /\ val_size < 25 => chunks = <<<<0, val_size>>>>
        /\ val_size >= 25 =>
              /\ Len(chunks) = 5
              /\ \A c \in DOMAIN chunks :
                    chunks[c][2] - chunks[c][1] = chunks[1][2] - chunks[1][1]
              /\ \A i \in 0 .. val_size - 1 :
                    Cardinality({c \in DOMAIN chunks :
                                    chunks[c][1] <= i /\ i < chunks[c][2]}) = 1

----------------------------------------------------------------------------
(* Properties of train and of main's final validation, continued *)

\* the training state: the loop variable, the optimizer and the parameters it
\* updates (opt_steps), the gradients, the schedule and the occupancy grid
trainingState == <<k, grads, opt_steps, sched_steps, occ_step, renders>>

\* C11: a validation pass leaves the training state as it found it: the
\* validation call of an iteration, the test render that follows it, and the
\* final validation of main change neither the iteration counter, nor the
\* optimizer and the parameters, nor the schedule, nor the occupancy grid.
C11_ValidationKeepsTrainingState ==
    [][(pc \in {"validation", "test_render", "final_validation"})
          => (trainingState' = trainingState)]_vars

\* the run ended after an in-loop validation pass and the final one, with
\* every iteration's optimizer, schedule and grid step counted once
C11_Witness ==
    /\ pc = "end"
    /\ validated # {}
    /\ args.n_iters >= 3
    /\ opt_steps = args.n_iters
    /\ sched_steps = args.n_iters
    /\ occ_step = args.n_iters - 1

\* the emissions of train that belong to iteration j
Emissions(j) == {e \in DOMAIN log : log[e].k = j}

\* iteration j has run to its end
IterationDone(j) ==
    \/ j < k
    \/ j = k /\ pc \in {"loop", "done", "final_validation", "end"}

\* C13: with debug off, every iteration 0 .. n_iters - 1 emits the training
\* scalars exactly once, in the plain emission or in the validation
\* emission: never zero times and never twice, also at iteration 0 and at
\* the multiples of the validation period when validation is disabled.
C13_EmittedOncePerIteration ==
    (pc # "idle" /\ ~args.debug) =>
        \A j \in 0 .. args.n_iters - 1 :
            IterationDone(j) => Cardinality(Emissions(j)) = 1

\* C14: the alpha an emission carries was assigned in this run (reading it
\* never fails) and is the coefficient the frequency penalty had in the loss
\* of the same iteration: the closed form inside the window, and 0 when no
\* penalty was applied (no regularizer configured, or k at or past the
\* window's end).
C14_EmittedAlphaCurrent ==
    pc # "idle" =>
        /\ exc # "NameError"
        /\ \A e \in DOMAIN log :
              /\ log[e].alpha # <<>>
              /\ log[e].alpha = coefs[log[e].k + 1]

\* the loss of iteration j had the frequency penalty added: inside the window
\* the coefficient is positive, and a loss without the penalty is recorded
\* with coefficient 0
PenaltyAdded(j) == coefs[j + 1] # <<0, 1>>

\* C15, as stated: the frequency penalty is added to the loss of iteration k
\* exactly when the regularizer is configured and k < reg_ratio * n_iters,
\* the product not truncated.
C15_WindowOfNIters ==
    pc # "idle" =>
        \A j \in 0 .. Len(coefs) - 1 :
            PenaltyAdded(j) <=>
                (args.ao # None /\ j * args.reg_ratio[2] < args.reg_ratio[1] * args.n_iters)

\* C15, amended: the frequency penalty is added to the loss of iteration k
\* exactly when the regularizer is configured and k < int(reg_ratio * Td),
\* with Td the decay horizon of the schedule and the product truncated to
\* an integer.
C15_WindowOfTdTruncated ==
    pc # "idle" =>
        \A j \in 0 .. Len(coefs) - 1 :
            PenaltyAdded(j) <=>
                (args.ao # None /\ j < (args.reg_ratio[1] * args.Td) \div args.reg_ratio[2])

\* a run of 4 iterations with Td = 3 and ratio 1/2: the penalty was added at
\* iteration 0 and not at iteration 1, although 1 < 3/2 and 1 < 4/2
C15_Witness ==
    /\ pc = "done"
    /\ args.ao # None
    /\ args.reg_ratio = <<1, 2>>
    /\ args.Td = 3
    /\ args.n_iters = 4
    /\ Len(coefs) = 4
    /\ PenaltyAdded(0)
    /\ ~PenaltyAdded(1)

\* how many of the seven steps of the current iteration (render, loss,
\* backward, optimizer step, schedule step, clear gradients, occupancy
\* refresh) are complete at position p
StepsDone(p) ==
    CASE p \in {"set_train", "next_batch", "render"} -> 0
      [] p = "loss"       -> 1
      [] p = "backward"   -> 2
      [] p = "opt_step"   -> 3
      [] p = "sched_step" -> 4
      [] p = "zero_grad"  -> 5
      [] p = "occ_update" -> 6
      [] OTHER            -> 7

\* 1 if at least n steps of the current iteration are complete, else 0
Past(n) == IF StepsDone(pc) >= n THEN 1 ELSE 0

\* C16: in every iteration the steps happen in the order render, loss,
\* backward, optimizer step, schedule step, clear gradients, occupancy
\* refresh with step = k, then the optional validation; and when the render
\* of an iteration starts, the optimizer step and the occupancy refresh of
\* every earlier iteration are complete.
C16_StepOrder ==
    (pc \notin {"idle", "start", "raised"}) =>
        /\ renders = k + Past(1)
        /\ Len(coefs) = k + Past(2)
        /\ grads = "set" <=> StepsDone(pc) \in {3, 4, 5}
        /\ opt_steps = k + Past(4)
        /\ sched_steps = k + Past(5)
        /\ StepsDone(pc) >= 6 /\ k >= 0 => grads = "zero"
        /\ occ_step = k - 1 + Past(7)
        /\ pc \in {"set_eval", "validation", "test_render", "val_log"} =>
              StepsDone(pc) = 7 /\ occ_step = k
        /\ pc = "render" => opt_steps = k /\ occ_step = k - 1

\* the render of the third iteration is about to start, after an iteration
\* with a validation pass
C16_Witness ==
    /\ pc = "render"
    /\ k = 2
    /\ renders = 2
    /\ opt_steps = 2
    /\ occ_step = 1
    /\ validated = {1}

----------------------------------------------------------------------------
(* Properties of the dataset, continued *)

\* C12: in ray mode the three columns of the ray table have the same rows,
\* and row n * H * W + i * W + j holds the origin, the direction and the
\* colour of pixel (i, j) of the n-th selected view, the origin being that
\* view's camera position; after construction and after every rebuild.
C12_RowAlignment ==
    (status = "built" /\ ~img_mode) =>
        /\ DOMAIN rays_o = DOMAIN rgb
        /\ DOMAIN rays_d = DOMAIN rgb
        /\ DOMAIN rgb = 0 .. n_imgs * hwf.H * hwf.W - 1
        /\ \A n \in 0 .. n_imgs - 1 :
           \A i \in 0 .. hwf.H - 1 :
           \A j \in 0 .. hwf.W - 1 :
              LET item == GetItem(n * hwf.H * hwf.W + i * hwf.W + j)
              IN  /\ item[1] = scene.x[idxs[n]]
                  /\ item[1] = poses[n].t
                  /\ item[2].frame = idxs[n]
                  /\ item[2].i = i
                  /\ item[2].j = j
                  /\ item[3].frame = idxs[n]
                  /\ item[3].i = i
                  /\ item[3].j = j

\* a ray-mode dataset of two different views of several rows and columns
\* whose table a blur has rebuilt
C12_Witness ==
    /\ status = "built"
    /\ ~img_mode
    /\ n_imgs = 2
    /\ idxs[0] # idxs[1]
    /\ hwf.H > 1
    /\ hwf.W > hwf.H
    /\ last_t > 0
    /\ ret.kind = "value"
    /\ rgb[hwf.H * hwf.W + hwf.W + 2].blur = <<last_t>>
    /\ rays_d[hwf.H * hwf.W + hwf.W + 2].frame = idxs[1]

\* the images, poses and intrinsics a dataset holds right after construction
FreshImgs ==
    [n \in DOMAIN idxs |->
        [p \in DOMAIN Load(scene).imgs[idxs[n]] |->
            Composite(Load(scene).imgs[idxs[n]][p], white_bkgd)]]

FreshPoses == [n \in DOMAIN idxs |-> Load(scene).poses[idxs[n]]]

FreshHwf == Load(scene).hwf

\* C17: gaussian_downsample never changes the stored images, poses and
\* intrinsics; for t > 0 it replaces the ray table by the one computed from
\* the stored originals, so what a call leaves and returns is what the same
\* call leaves and returns on a freshly built dataset, whatever calls came
\* before: blur does not accumulate and repeating a call changes nothing.
C17_BlurFromOriginals ==
    status = "built" =>
        /\ imgs = FreshImgs
        /\ poses = FreshPoses
        /\ hwf = FreshHwf
        /\ (last_t > 0 /\ ret.kind = "value") =>
              LET down == Downsample(Blur(FreshImgs, last_t), FreshHwf, 1)
                  tab  == BuildData(down.imgs, FreshPoses, down.hwf)
              IN  /\ rays_o = tab.rays_o
                  /\ rays_d = tab.rays_d
                  /\ rgb = tab.rgb
                  /\ ret.imgs = down.imgs
                  /\ ret.hwf = down.hwf
                  /\ \A r \in DOMAIN rgb : rgb[r].blur = <<last_t>>
        /\ last_t = 0 => ret.imgs = FreshImgs /\ ret.hwf = FreshHwf

\* a blur was applied to a dataset whose table an earlier blur had already
\* rebuilt
C17_Witness ==
    /\ status = "built"
    /\ prev_t > 0
    /\ last_t > 0
    /\ ret.kind = "value"
    /\ rgb[0].blur = <<last_t>>
    /\ imgs[0][<<0, 0>>].blur = <<>>

====
